---- MODULE Spec2Model ----
(***************************************************************************)
(* Model of gui/shredder/views/editor.py: the editor view of Shredder.     *)
(* The view shows the generated script, lets the user save it through a    *)
(* file chooser, and runs it while a label shows the removed size.         *)
(*                                                                         *)
(* Python strings are modelled as sequences of one-character strings, so   *)
(* that str.lower, str.rsplit and GLib.markup_escape_text are computed     *)
(* character by character.  None is modelled by the value None, and by the *)
(* empty sequence where the code only tests truthiness of a string.        *)
(***************************************************************************)
EXTENDS Integers, Sequences, FiniteSets, TLC

\* ------------------------------------------------------------------ bounds
\* Number of clicks on `Run Script` explored.
MaxClicks == 2
\* Number of line-read events delivered by the runner.
MaxLines == 2
\* Number of clicks on the chooser's `Save` button explored.
MaxSaves == 1

\* ------------------------------------------------------------- input sets
None == "None"

\* Script objects: DummyScript is Script.create_dummy(), RealScript is a
\* script produced by the runner view.
DummyScript == "dummy"
RealScript == "real"
Scripts == {DummyScript, RealScript}
\* Values of views['runner'].script.
RunnerScripts == {None, RealScript}

kw_keeping == <<"k","e","e","p","i","n","g">>
Prefixes ==
    { kw_keeping,
      <<"K","e","e","p","i","n","g">>,
      <<"K","E","E","P","I","N","G">>,
      <<"r","e","m","o","v","i","n","g">> }

\* Paths reported by the runner: two known to the model, one unknown.
PathA == <<"/","a">>
PathB == <<"/","b","&">>
PathX == <<"/","x">>
LinePaths == {PathA, PathB, PathX}

FileTypes == {<<"s","h">>, <<"j","s","o","n">>, <<"c","s","v">>}

\* Results of time.strftime('%FT%T%z'), abbreviated.
Timestamps == {<<"T","1">>, <<"T","2">>}

Folders == {<<"/","d">>, <<"/","u",".","d">>}
Names ==
    { <<"f",".","s","h">>,
      <<"a",".","b",".","s","h">>,
      <<"f">>,
      <<>> }

\* Inputs of the runner and of the chooser while the whole view is explored.
FewPrefixes == {<<"r","e","m","o","v","i","n","g">>, kw_keeping}
FewLinePaths == {<<"/","a">>}
FewFolders == {<<"/","d">>}
FewNames == {<<"f",".","s","h">>}
FewTimestamps == {<<"T","1">>}

\* ---------------------------------------------------------- pure functions
\* str.lower() on the letters that occur in Prefixes.
LowerChar(c) ==
    CASE c = "K" -> "k"
      [] c = "E" -> "e"
      [] c = "P" -> "p"
      [] c = "I" -> "i"
      [] c = "N" -> "n"
      [] c = "G" -> "g"
      [] OTHER -> c

Lower(s) == [i \in 1..Len(s) |-> LowerChar(s[i])]

\* GLib.markup_escape_text
EscapeChar(c) ==
    CASE c = "&" -> <<"&","a","m","p",";">>
      [] c = "<" -> <<"&","l","t",";">>
      [] c = ">" -> <<"&","g","t",";">>
      [] c = "'" -> <<"&","#","3","9",";">>
      [] c = "\"" -> <<"&","q","u","o","t",";">>
      [] OTHER -> <<c>>

RECURSIVE markup_escape_text(_)
markup_escape_text(s) ==
    IF s = <<>> THEN <<>>
    ELSE EscapeChar(Head(s)) \o markup_escape_text(Tail(s))

\* model.lookup_by_path(path)[Column.SIZE]; None when the path is unknown.
NoNode == -1
lookup_by_path(path) ==
    CASE path = PathA -> 1
      [] path = PathB -> 2
      [] OTHER -> NoNode

\* Positions of character c in s.
Positions(s, c) == {i \in 1..Len(s) : s[i] = c}

SetMax(S) == CHOOSE x \in S : \A y \in S : y <= x
SetMin(S) == CHOOSE x \in S : \A y \in S : x <= y

\* s.rsplit('.', 1): a pair <<head, tail>>, or NoSplit when the
\* unpacking `path, ext = ...` raises ValueError (no '.' in s).
NoSplit == <<>>

RSplitDotFirst(s) ==
    IF Positions(s, ".") = {} THEN NoSplit
    ELSE LET i == SetMin(Positions(s, "."))
         IN <<SubSeq(s, 1, i - 1), SubSeq(s, i + 1, Len(s))>>

RSplitDot(s) ==
    IF Positions(s, ".") = {} THEN NoSplit
    ELSE LET i == SetMax(Positions(s, "."))
         IN <<SubSeq(s, 1, i - 1), SubSeq(s, i + 1, Len(s))>>

\* ------------------------------------------------------------------ state
VARIABLES
    stack,             \* EditorView.stack: visible child of the right side
    left_stack,        \* EditorView.left_stack: visible child of the left side
    sub_title,         \* EditorView.sub_title
    buffer_text,       \* script whose text is in the text view's buffer
    script,            \* EditorView.script
    sensitive,         \* Gtk sensitivity of EditorView.run_button
    dry_run,           \* RunButton.dry_run, bound to RunButton.state.active
    icon_stack,        \* visible child of the icon stack
    button_class,      \* style class of RunButton.button
    state_class,       \* style class of RunButton.state
    line_handlers,     \* per Script: number of connected 'line-read' handlers
    finished_handlers, \* per Script: number of connected 'script-finished' handlers
    runs,              \* per Script: runs started and not yet finished
    run_log,           \* the calls of Script.run, in order
    size_sum,          \* RunningLabel._size_sum
    label,             \* arguments of the last REMOVED_LABEL markup set
    nlines,            \* number of line-read events delivered
    folder,            \* current folder of the file chooser
    entry,             \* current name of the file chooser
    file_type,         \* selected choice of ScriptSaverDialog.file_type
    confirm,           \* sensitivity of ScriptSaverDialog.confirm
    n_saves,           \* number of calls of Script.save
    last_save,         \* the last call of Script.save and its outcome
    n_saved,           \* number of 'saved' signals emitted
    ev                 \* the last event handled, with its arguments

view_vars == <<stack, left_stack, sub_title, buffer_text, script>>
button_vars == <<sensitive, dry_run, icon_stack, button_class, state_class>>
runner_vars == <<line_handlers, finished_handlers, runs, run_log>>
label_vars == <<size_sum, label, nlines>>
chooser_vars == <<folder, entry, file_type, confirm>>
save_vars == <<n_saves, last_save, n_saved>>

vars == <<view_vars, button_vars, runner_vars, label_vars, chooser_vars,
          save_vars, ev>>

Event(op, a, b) == [op |-> op, prefix |-> a, path |-> b]

\* --------------------------------------------------------- RunningLabel
\* RunningLabel.push applied to the pair (size_sum, label).
PushNoLower(st, has_model, prefix, path) ==
    IF prefix = kw_keeping THEN st
    ELSE LET text == [t |-> prefix, s |-> st.size_sum,
                      p |-> markup_escape_text(path)]
             node == IF has_model THEN lookup_by_path(path) ELSE NoNode
         IN [size_sum |-> IF node # NoNode THEN st.size_sum + node
                          ELSE st.size_sum,
             label |-> text]

PushTextIfFound(st, has_model, prefix, path) ==
    IF Lower(prefix) = kw_keeping THEN st
    ELSE LET text == [t |-> prefix, s |-> st.size_sum,
                      p |-> markup_escape_text(path)]
             node == IF has_model THEN lookup_by_path(path) ELSE NoNode
         IN [size_sum |-> IF node # NoNode THEN st.size_sum + node
                          ELSE st.size_sum,
             label |-> IF node # NoNode \/ ~has_model THEN text
                       ELSE st.label]

Push(st, has_model, prefix, path) ==
    IF Lower(prefix) = kw_keeping THEN st
    ELSE LET text == [t |-> prefix, s |-> st.size_sum,
                      p |-> markup_escape_text(path)]
             node == IF has_model THEN lookup_by_path(path) ELSE NoNode
         IN [size_sum |-> IF node # NoNode THEN st.size_sum + node
                          ELSE st.size_sum,
             label |-> text]

\* Emission of 'line-read': every connected handler calls push in turn.
RECURSIVE EmitLineRead(_, _, _, _)
EmitLineRead(n, st, prefix, path) ==
    IF n = 0 THEN st
    ELSE EmitLineRead(n - 1, Push(st, TRUE, prefix, path), prefix, path)

\* RunningLabel.__init__: _size_sum = 0, then push(None, '', '').
InitialLabel == Push([size_sum |-> 0, label |-> [t |-> <<>>, s |-> 0, p |-> <<>>]],
                     FALSE, <<>>, <<>>)

\* ------------------------------------------------------------ RunButton
\* RunButton._toggle_dry_run: the class both widgets get for `active`.
ToggleClass(active) == IF ~active THEN "destructive" ELSE "suggested"

IconForStuck(flag) == "warning"

\* The 'notify::dry-run' handler of EditorView.__init__.
IconFor(flag) == IF flag THEN "warning" ELSE "danger"

\* ---------------------------------------------------- ScriptSaverDialog
\* Gtk.FileChooser.get_filename(): the empty string stands for None.
get_filename(f, e) ==
    IF e = <<>> THEN <<>>
    ELSE IF Head(e) = "/" THEN e
    ELSE f \o <<"/">> \o e

\* The name set by update_file_suggestion.
Suggestion(ts, ft) == <<"r","m","l","i","n","t","-">> \o ts \o <<".">> \o ft

\* The name of the chooser after on_file_type_changed.
NameAfterFileTypeChanged(f, e, ft, ts) ==
    LET current_path == get_filename(f, e)
    IN IF current_path = <<>> THEN Suggestion(ts, ft)
       ELSE LET parts == RSplitDot(current_path)
            IN IF parts = NoSplit THEN e
               ELSE parts[1] \o <<".">> \o ft

\* ------------------------------------------------------------------ Init
InitWith(F, T) ==
    /\ stack = "danger"
    /\ left_stack = "script"
    /\ sub_title = ""
    /\ buffer_text = None
    /\ script = DummyScript
    /\ sensitive = TRUE
    /\ dry_run = TRUE
    /\ icon_stack = "warning"
    /\ button_class = ToggleClass(TRUE)
    /\ state_class = ToggleClass(TRUE)
    /\ line_handlers = [s \in Scripts |-> 0]
    /\ finished_handlers = [s \in Scripts |-> 0]
    /\ runs = [s \in Scripts |-> 0]
    /\ run_log = <<>>
    /\ size_sum = InitialLabel.size_sum
    /\ label = InitialLabel.label
    /\ nlines = 0
    /\ folder \in F
    /\ file_type = <<"s","h">>
    /\ \E ts \in T : entry = Suggestion(ts, <<"s","h">>)
    /\ confirm = FALSE
    /\ n_saves = 0
    /\ last_save = [script |-> None, path |-> <<>>, fmt |-> <<>>, ok |-> FALSE]
    /\ n_saved = 0
    /\ ev = Event("init", <<>>, <<>>)

Init == InitWith(FewFolders, FewTimestamps)
InitSave == InitWith(Folders, Timestamps)

\* --------------------------------------------------------------- actions
\* The user toggles RunButton.state; the button is on the 'danger' page.
\* The property binding copies `active` to dry_run, whose notification
\* moves the icon stack, and 'toggled' runs _toggle_dry_run.
ToggleDryRun ==
    /\ stack = "danger"
    /\ sensitive
    /\ dry_run' = ~dry_run
    /\ icon_stack' = IconFor(dry_run')
    /\ button_class' = ToggleClass(dry_run')
    /\ state_class' = ToggleClass(dry_run')
    /\ ev' = Event("toggle", <<>>, <<>>)
    /\ UNCHANGED <<view_vars, sensitive, runner_vars, label_vars,
                   chooser_vars, save_vars>>

\* The dry_run argument on_run_script_clicked hands to Script.run.
RunArgument(flag) == TRUE

\* EditorView.on_run_script_clicked
RunClicked ==
    /\ stack = "danger"
    /\ sensitive
    /\ Len(run_log) < MaxClicks
    /\ sub_title' = "Shreddering. Cross fingers!"
    /\ stack' = "progressing"
    /\ left_stack' = "list"
    /\ line_handlers' = [line_handlers EXCEPT ![script] = @ + 1]
    /\ finished_handlers' = [finished_handlers EXCEPT ![script] = @ + 1]
    /\ run_log' = Append(run_log, [script |-> script,
                                   dry_run |-> RunArgument(dry_run)])
    /\ runs' = [runs EXCEPT ![script] = @ + 1]
    /\ ev' = Event("run", <<>>, <<>>)
    /\ UNCHANGED <<buffer_text, script, button_vars, label_vars,
                   chooser_vars, save_vars>>

\* A running script s emits 'line-read' (prefix, path).
LineRead(s, prefix, path) ==
    /\ runs[s] > 0
    /\ nlines < MaxLines
    /\ LET st == EmitLineRead(line_handlers[s],
                               [size_sum |-> size_sum, label |-> label],
                               prefix, path)
       IN /\ size_sum' = st.size_sum
          /\ label' = st.label
    /\ nlines' = nlines + 1
    /\ ev' = Event("line-read", prefix, path)
    /\ UNCHANGED <<view_vars, button_vars, runner_vars, chooser_vars,
                   save_vars>>

ScriptFinishedNoScreen(s) ==
    /\ runs[s] > 0
    /\ runs' = [runs EXCEPT ![s] = @ - 1]
    /\ ev' = Event("script-finished", <<>>, <<>>)
    /\ UNCHANGED <<view_vars, button_vars, line_handlers, finished_handlers,
                   run_log, label_vars, chooser_vars, save_vars>>

\* A running script s emits its terminal 'script-finished'.
ScriptFinished(s) ==
    /\ runs[s] > 0
    /\ runs' = [runs EXCEPT ![s] = @ - 1]
    /\ stack' = IF finished_handlers[s] > 0 THEN "finished" ELSE stack
    /\ ev' = Event("script-finished", <<>>, <<>>)
    /\ UNCHANGED <<left_stack, sub_title, buffer_text, script, button_vars,
                   line_handlers, finished_handlers, run_log, label_vars,
                   chooser_vars, save_vars>>

\* EditorView.switch_to_script for the script scr: the values of
\* <<sub_title, left_stack, buffer_text, stack>> it leaves.
switch_to_script(scr) ==
    /\ sub_title' = "Check the results"
    /\ left_stack' = "script"
    /\ buffer_text' = scr
    /\ stack' = "danger"

\* RunButton.set_sensitive
set_sensitive(is_sensitive) ==
    /\ sensitive' = is_sensitive
    /\ state_class' = IF ~is_sensitive THEN "none" ELSE ToggleClass(dry_run)
    /\ button_class' = IF ~is_sensitive THEN button_class
                       ELSE ToggleClass(dry_run)

GoBackKeepsSensitive ==
    /\ stack = "finished"
    /\ switch_to_script(script)
    /\ ev' = Event("go-back", <<>>, <<>>)
    /\ UNCHANGED <<script, button_vars, runner_vars, label_vars,
                   chooser_vars, save_vars>>

\* EditorView._switch_back: `Go back to Script` on the finished screen.
GoBack ==
    /\ stack = "finished"
    /\ set_sensitive(FALSE)
    /\ switch_to_script(script)
    /\ ev' = Event("go-back", <<>>, <<>>)
    /\ UNCHANGED <<script, dry_run, icon_stack, runner_vars, label_vars,
                   chooser_vars, save_vars>>

ViewEnterNoCheck(run_script) ==
    /\ set_sensitive(TRUE)
    /\ script' = run_script
    /\ switch_to_script(script')
    /\ ev' = Event("view-enter", <<>>, <<>>)
    /\ UNCHANGED <<dry_run, icon_stack, runner_vars, label_vars,
                   chooser_vars, save_vars>>

\* EditorView.on_view_enter; run_script is views['runner'].script.
ViewEnter(run_script) ==
    /\ set_sensitive(TRUE)
    /\ script' = IF run_script # None THEN run_script ELSE script
    /\ switch_to_script(script')
    /\ ev' = Event("view-enter", <<>>, <<>>)
    /\ UNCHANGED <<dry_run, icon_stack, runner_vars, label_vars,
                   chooser_vars, save_vars>>

\* 'save-clicked' of the overlay button, shown on the 'script' page.
SaveButtonClicked ==
    /\ left_stack = "script"
    /\ left_stack' = "chooser"
    /\ ev' = Event("save-clicked", <<>>, <<>>)
    /\ UNCHANGED <<stack, sub_title, buffer_text, script, button_vars,
                   runner_vars, label_vars, chooser_vars, save_vars>>

\* ScriptSaverDialog.on_selection_changed
on_selection_changed(f, e) == get_filename(f, e) # <<>>

\* The user picks folder f and name n in the chooser's list, which emits
\* 'selection-changed'.
SelectionChanged(f, n) ==
    /\ left_stack = "chooser"
    /\ folder' = f
    /\ entry' = n
    /\ confirm' = on_selection_changed(f, n)
    /\ ev' = Event("selection-changed", <<>>, n)
    /\ UNCHANGED <<view_vars, button_vars, runner_vars, label_vars,
                   file_type, save_vars>>

\* The user types the name n; the toolkit may or may not report it as a
\* change of the selection.
TypeName(n, fire) ==
    /\ left_stack = "chooser"
    /\ entry' = n
    /\ confirm' = IF fire THEN on_selection_changed(folder, n) ELSE confirm
    /\ ev' = Event("type-name", <<>>, n)
    /\ UNCHANGED <<view_vars, button_vars, runner_vars, label_vars,
                   folder, file_type, save_vars>>

\* ScriptSaverDialog.on_file_type_changed after the choice became ft;
\* ts is the time stamp a new suggestion would carry.
FileTypeChanged(ft, ts) ==
    /\ left_stack = "chooser"
    /\ file_type' = ft
    /\ entry' = NameAfterFileTypeChanged(folder, entry, ft, ts)
    /\ ev' = Event("file-type-changed", ft, get_filename(folder, entry))
    /\ UNCHANGED <<view_vars, button_vars, runner_vars, label_vars,
                   folder, confirm, save_vars>>

SaveClickedNoSignal(ok) ==
    /\ left_stack = "chooser"
    /\ confirm
    /\ n_saves < MaxSaves
    /\ n_saves' = n_saves + 1
    /\ last_save' = [script |-> script,
                     path |-> get_filename(folder, entry),
                     fmt |-> file_type, ok |-> ok]
    /\ ev' = Event("save", <<>>, <<>>)
    /\ UNCHANGED <<view_vars, button_vars, runner_vars, label_vars,
                   chooser_vars, n_saved>>

SaveClickedAlwaysSignal(ok) ==
    /\ left_stack = "chooser"
    /\ confirm
    /\ n_saves < MaxSaves
    /\ n_saves' = n_saves + 1
    /\ last_save' = [script |-> script,
                     path |-> get_filename(folder, entry),
                     fmt |-> file_type, ok |-> ok]
    /\ n_saved' = n_saved + 1
    /\ left_stack' = "script"
    /\ ev' = Event("save", <<>>, <<>>)
    /\ UNCHANGED <<stack, sub_title, buffer_text, script, button_vars,
                   runner_vars, label_vars, chooser_vars>>

\* ScriptSaverDialog.on_save_clicked; ok tells whether Script.save returns
\* or raises.
SaveClicked(ok) ==
    /\ left_stack = "chooser"
    /\ confirm
    /\ n_saves < MaxSaves
    /\ n_saves' = n_saves + 1
    /\ last_save' = [script |-> script,
                     path |-> get_filename(folder, entry),
                     fmt |-> file_type, ok |-> ok]
    /\ n_saved' = IF ok THEN n_saved + 1 ELSE n_saved
    /\ left_stack' = IF ok THEN "script" ELSE left_stack
    /\ ev' = Event("save", <<>>, <<>>)
    /\ UNCHANGED <<stack, sub_title, buffer_text, script, button_vars,
                   runner_vars, label_vars, chooser_vars>>

\* ------------------------------------------------------- specifications
\* The whole view, with few inputs.  Of the chooser only the steps that
\* show it, enable its Save button and save are taken; the steps that edit
\* the name alone change nothing but chooser_vars and are explored in
\* SpecSave.
Next ==
    \/ ToggleDryRun
    \/ RunClicked
    \/ \E s \in Scripts, prefix \in FewPrefixes, path \in FewLinePaths :
          LineRead(s, prefix, path)
    \/ \E s \in Scripts : ScriptFinished(s)
    \/ GoBack
    \/ \E run_script \in RunnerScripts :
          ViewEnter(run_script)
    \/ SaveButtonClicked
    \/ \E f \in FewFolders, n \in FewNames : SelectionChanged(f, n)
    \/ \E ok \in BOOLEAN : SaveClicked(ok)

Spec == Init /\ [][Next]_vars

\* The run flow with all its inputs; the chooser is never shown.
NextRun ==
    \/ ToggleDryRun
    \/ RunClicked
    \/ \E s \in Scripts, prefix \in Prefixes, path \in LinePaths :
          LineRead(s, prefix, path)
    \/ \E s \in Scripts : ScriptFinished(s)
    \/ GoBack
    \/ \E run_script \in RunnerScripts : ViewEnter(run_script)

SpecRun == Init /\ [][NextRun]_vars

\* The run flow when every started run delivers its 'script-finished'.
SpecRunFair ==
    /\ SpecRun
    /\ \A s \in Scripts : WF_vars(ScriptFinished(s))

\* The save flow with all its inputs; no script is run.
NextSave ==
    \/ \E run_script \in RunnerScripts :
          ViewEnter(run_script)
    \/ SaveButtonClicked
    \/ \E f \in Folders, n \in Names : SelectionChanged(f, n)
    \/ \E n \in Names, fire \in BOOLEAN : TypeName(n, fire)
    \/ \E ft \in FileTypes, ts \in Timestamps : FileTypeChanged(ft, ts)
    \/ \E ok \in BOOLEAN : SaveClicked(ok)

SpecSave == InitSave /\ [][NextSave]_vars

\* ---------------------------------------------------------- properties
TypeOK ==
    /\ stack \in {"danger", "progressing", "finished"}
    /\ left_stack \in {"script", "chooser", "list"}
    /\ script \in Scripts
    /\ icon_stack \in {"warning", "danger"}
    /\ size_sum \in Nat

\* The spellings of 'keeping' the runner may send.
KeepingSpellings ==
    { <<"k","e","e","p","i","n","g">>,
      <<"K","e","e","p","i","n","g">>,
      <<"K","E","E","P","I","N","G">> }

Removing == <<"r","e","m","o","v","i","n","g">>

\* The size of the entry the size index holds for a path, 0 if none.
EntrySize(path) ==
    IF path = <<"/","a">> THEN 1
    ELSE IF path = <<"/","b","&">> THEN 2
    ELSE 0

\* The markup-safe text the label shows for a path.
DisplayedPath(path) ==
    IF path = <<"/","b","&">> THEN <<"/","b","&","a","m","p",";">>
    ELSE path

Running == \E s \in Scripts : runs[s] > 0

ScreenEdges ==
    { <<"danger", "progressing">>,
      <<"progressing", "finished">>,
      <<"finished", "danger">> }

\* C1: the right-hand screen changes only along Script->Running,
\* Running->Finished and Finished->Script; every other step leaves it
\* unchanged.
C1_ScreenEdgesOnly ==
    [][stack' # stack => <<stack, stack'>> \in ScreenEdges]_vars

\* C2: the dry_run argument of every call of Script.run equals the value
\* of the toggle's dry_run flag at the click that made the call.
C2_RunArgumentIsToggle ==
    [][Len(run_log') = Len(run_log) + 1
         => run_log'[Len(run_log')].dry_run = dry_run]_vars

\* C3: while a run is in progress the run control is disabled.
C3_DisabledWhileRunning == Running => ~sensitive

\* C4: a line-read event whose prefix is not 'keeping' and whose path the
\* size index resolves adds exactly the entry's size to size_sum, in the
\* first and in every later run.
C4_SizeSumAddsEntrySize ==
    [][(/\ nlines' = nlines + 1
        /\ ev'.prefix \notin KeepingSpellings
        /\ EntrySize(ev'.path) > 0)
         => size_sum' = size_sum + EntrySize(ev'.path)]_vars

\* C5: a line-read event whose prefix is 'keeping' in any letter case
\* leaves size_sum unchanged, whether or not its path resolves.
C5_KeepingLeavesSizeSum ==
    [][(nlines' = nlines + 1 /\ ev'.prefix \in KeepingSpellings)
         => size_sum' = size_sum]_vars

\* C5 witness: after a removal was counted, an upper-case 'KEEPING' event
\* with a resolvable path was delivered.
C5_Witness ==
    /\ ev.op = "line-read"
    /\ ev.prefix = <<"K","E","E","P","I","N","G">>
    /\ ev.path = <<"/","b","&">>
    /\ size_sum = 1

\* C6 as stated: after every line-read event the label shows the prefix
\* and the path of that event, 'keeping' events included.
C6_LabelShowsEveryEvent ==
    [][nlines' = nlines + 1
         => (label'.t = ev'.prefix /\ label'.p = DisplayedPath(ev'.path))]_vars

\* C6 amended: after a line-read event whose prefix is not 'keeping' the
\* label shows the prefix and the path of that event, whether or not the
\* path resolves; a 'keeping' event leaves the label as it was.
C6_LabelShowsRemovals ==
    [][nlines' = nlines + 1
         => IF ev'.prefix \in KeepingSpellings
            THEN label' = label
            ELSE label'.t = ev'.prefix /\ label'.p = DisplayedPath(ev'.path)]_vars

\* C6 witness: a non-'keeping' event with an unresolvable path is shown.
C6_Witness ==
    /\ ev.op = "line-read"
    /\ ev.prefix = Removing
    /\ ev.path = <<"/","x">>
    /\ label.t = Removing
    /\ label.p = <<"/","x">>
    /\ nlines = 2

\* C7: the run mode starts as dry run with the 'warning' icon, every
\* toggle flips dry_run, and the icon is 'warning' exactly when dry_run
\* holds and 'danger' exactly when it does not.
C7_IconMatchesDryRun ==
    /\ (dry_run = TRUE /\ icon_stack = "warning")
    /\ [](dry_run <=> icon_stack = "warning")
    /\ [](~dry_run <=> icon_stack = "danger")
    /\ [][ev'.op = "toggle" => dry_run' = ~dry_run]_vars

\* C7 witness: the user chose a real run and the run control has since
\* been disabled by going back from the finished screen.
C7_Witness ==
    /\ ~dry_run
    /\ icon_stack = "danger"
    /\ ~sensitive
    /\ ev.op = "go-back"

\* C8: the Save control is enabled exactly when the destination path is
\* not empty.
C8_ConfirmIffPath == confirm <=> (get_filename(folder, entry) # <<>>)

\* The part of a path after its last '/', and the part up to it.
LastSlash(path) == SetMax(Positions(path, "/") \cup {0})
BaseName(path) == SubSeq(path, LastSlash(path) + 1, Len(path))
DirPart(path) == SubSeq(path, 1, LastSlash(path))
HasExtension(path) == Positions(BaseName(path), ".") # {}
Stem(name) == SubSeq(name, 1, SetMax(Positions(name, ".")) - 1)

C10_SaveDelegates ==
    [][n_saves' # n_saves
         => /\ n_saves' = n_saves + 1
            /\ last_save'.script = script
            /\ last_save'.path = get_filename(folder, entry)
            /\ last_save'.fmt = file_type
            /\ last_save'.ok
                 => /\ n_saved' = n_saved + 1
                    /\ left_stack = "chooser"
                    /\ left_stack' = "script"]_vars

\* C10 witness: a real script was saved as json and the pane went back.
C10_Witness ==
    /\ ev.op = "save"
    /\ last_save.ok
    /\ last_save.script = RealScript
    /\ last_save.fmt = <<"j","s","o","n">>
    /\ last_save.path = <<"/","d","/","f",".","j","s","o","n">>
    /\ n_saved = 1
    /\ left_stack = "script"

\* C11: get_script never returns an absent value: the view's script is
\* the dummy or a real script, also after on_view_enter found no script
\* in the runner view.
C11_ScriptNeverAbsent == script # None /\ script \in Scripts

\* C11 witness: the view was entered while the runner view had no script,
\* and the dummy script is still the current one.
C11_Witness ==
    /\ ev.op = "view-enter"
    /\ script = DummyScript
    /\ buffer_text = DummyScript

\* C12: every run starts with size_sum = 0.
C12_RunStartsAtZero ==
    [][Len(run_log') = Len(run_log) + 1 => size_sum' = 0]_vars

\* C13: when the format changes and the destination's file name has no
\* extension, the destination is left exactly as it was, also when a
\* directory of the path contains a '.'.
C13_NoExtensionLeftAlone ==
    [][(/\ ev'.op = "file-type-changed"
        /\ get_filename(folder, entry) # <<>>
        /\ ~HasExtension(get_filename(folder, entry)))
         => (/\ entry' = entry
             /\ get_filename(folder', entry') = get_filename(folder, entry))]_vars

\* C14: when Script.save raises, the click on Save made exactly one call,
\* no 'saved' is emitted and the left pane stays on 'chooser'.
C14_FailedSaveKeepsChooser ==
    [][(n_saves' # n_saves /\ ~last_save'.ok)
         => /\ n_saves' = n_saves + 1
            /\ n_saved' = n_saved
            /\ left_stack = "chooser"
            /\ left_stack' = "chooser"]_vars

\* C14 witness: a save of the real script as csv failed and the chooser
\* is still shown.
C14_Witness ==
    /\ ev.op = "save"
    /\ ~last_save.ok
    /\ last_save.script = RealScript
    /\ last_save.fmt = <<"c","s","v">>
    /\ n_saves = 1
    /\ n_saved = 0
    /\ left_stack = "chooser"

\* C15 as stated: every Run click is eventually followed by the finished
\* screen, the finished screen is entered only by 'script-finished', and
\* it is left only by Go back.
C15_FinishedOnlyLeftByGoBack ==
    /\ (Running ~> (stack = "finished"))
    /\ [][(stack # "finished" /\ stack' = "finished")
            => ev'.op = "script-finished"]_vars
    /\ [][(stack = "finished" /\ stack' # "finished")
            => ev'.op = "go-back"]_vars

\* C15 amended: every Run click is eventually followed by the finished
\* screen, the finished screen is entered only by 'script-finished', and
\* it is left only by Go back or by on_view_enter.
C15_FinishedLeftByGoBackOrEnter ==
    /\ (Running ~> (stack = "finished"))
    /\ [][(stack # "finished" /\ stack' = "finished")
            => ev'.op = "script-finished"]_vars
    /\ [][(stack = "finished" /\ stack' # "finished")
            => ev'.op \in {"go-back", "view-enter"}]_vars

\* C15 witness: the second run has finished and its finished screen is
\* shown.
C15_Witness ==
    /\ stack = "finished"
    /\ ev.op = "script-finished"
    /\ Len(run_log) = 2
    /\ ~Running

\* C16: Go back disables the run control, only on_view_enter enables it
\* again, and a run is only started while the control is enabled.
C16_DisabledUntilViewEnter ==
    /\ [][ev'.op = "go-back" => (~sensitive' /\ stack' = "danger")]_vars
    /\ [][(~sensitive /\ sensitive') => ev'.op = "view-enter"]_vars
    /\ [][Len(run_log') = Len(run_log) + 1 => sensitive]_vars

\* C16 witness: the script screen after Go back, with the control disabled.
C16_Witness ==
    /\ ev.op = "go-back"
    /\ stack = "danger"
    /\ ~sensitive
    /\ state_class = "none"

\* C17: the total a non-'keeping' event renders in the label is the value
\* size_sum had before the event.
C17_RenderedTotalIsSumBefore ==
    [][(nlines' = nlines + 1 /\ ev'.prefix \notin KeepingSpellings)
         => label'.s = size_sum]_vars

\* C18: while the running screen is shown the left pane shows the list,
\* the chooser is shown only on the script screen, and neither the Save
\* button nor the chooser is shown on the running or finished screen.
C18_SaveOnlyOnScriptScreen ==
    /\ (stack = "progressing" => left_stack = "list")
    /\ (left_stack = "chooser" => stack = "danger")
    /\ (stack \in {"progressing", "finished"} => left_stack = "list")
====
